---- MODULE Spec2Model ----
(***************************************************************************)
(* Recommendation matcher of customer-email-app-flask (src/matcher.py).    *)
(*                                                                         *)
(* match_products_to_customers(products_df, customers_df, max_recs) is     *)
(* modelled as a state machine: Sort (lines 7-10), one MatchCustomer step  *)
(* per customer row (lines 13-43) and Return (line 44).  A data frame is a *)
(* sequence of rows; a filtered or sorted frame is the sequence of the row *)
(* labels (1..n, the frame's index) it keeps, in its order.  A cell is a   *)
(* record [t, n, s]: t = "nan" a missing cell (NaN/None in a frame),       *)
(* t = "none" Python's None, t = "num" the number n, t = "str" the text s. *)
(* Text is a sequence of one-character strings, so that strip, lower,      *)
(* float() and the pattern search are computed and not assumed.            *)
(*                                                                         *)
(* The web application around it (src/app.py) adds three variables:        *)
(* request, the upload the index handler is working on; session, the       *)
(* drafts under review and their status list; mail, what the last handler  *)
(* handed to gmail_send and how often each draft was delivered.            *)
(***************************************************************************)
EXTENDS Integers, Sequences, FiniteSets, TLC

VARIABLES products_df, customers_df, max_recs, p, p_sorted, rows, locals, pc,
          request, session, mail

appvars == <<request, session, mail>>

vars == <<products_df, customers_df, max_recs, p, p_sorted, rows, locals, pc,
          request, session, mail>>

\* ---------------------------------------------------------------- bounds
MaxProducts == 2
MaxCustomers == 2
MaxRecs == 2
MaxDrafts == 2

\* ----------------------------------------------------------------- cells
NaN == [t |-> "nan", n |-> 0, s |-> <<>>]
None == [t |-> "none", n |-> 0, s |-> <<>>]
Num(k) == [t |-> "num", n |-> k, s |-> <<>>]
Str(cs) == [t |-> "str", n |-> 0, s |-> cs]

\* pd.notna(val): false for NaN and for None
notna(val) == val.t \notin {"nan", "none"}

Min(a, b) == IF a <= b THEN a ELSE b
Max(a, b) == IF a >= b THEN a ELSE b

\* ------------------------------------------------------------------ text
\* str.lower() on one character
LowerChar(c) ==
  CASE c = "A" -> "a"
    [] c = "B" -> "b"
    [] c = "E" -> "e"
    [] c = "I" -> "i"
    [] c = "K" -> "k"
    [] c = "N" -> "n"
    [] c = "P" -> "p"
    [] c = "Z" -> "z"
    [] OTHER -> c

\* str.lower()
Lower(cs) == [j \in 1..Len(cs) |-> LowerChar(cs[j])]

RECURSIVE LStrip(_)
LStrip(cs) == IF cs # <<>> /\ Head(cs) = " " THEN LStrip(Tail(cs)) ELSE cs

RECURSIVE RStrip(_)
RStrip(cs) ==
  IF cs # <<>> /\ cs[Len(cs)] = " " THEN RStrip(SubSeq(cs, 1, Len(cs) - 1)) ELSE cs

\* str.strip()
Strip(cs) == RStrip(LStrip(cs))

Digits == {"0", "1", "2", "3", "4", "5", "6", "7", "8", "9"}

DigitVal(c) ==
  CASE c = "0" -> 0 [] c = "1" -> 1 [] c = "2" -> 2 [] c = "3" -> 3
    [] c = "4" -> 4 [] c = "5" -> 5 [] c = "6" -> 6 [] c = "7" -> 7
    [] c = "8" -> 8 [] OTHER -> 9

DigitChar(k) ==
  CASE k = 0 -> "0" [] k = 1 -> "1" [] k = 2 -> "2" [] k = 3 -> "3"
    [] k = 4 -> "4" [] k = 5 -> "5" [] k = 6 -> "6" [] k = 7 -> "7"
    [] k = 8 -> "8" [] OTHER -> "9"

IsDigits(cs) == cs # <<>> /\ \A j \in 1..Len(cs) : cs[j] \in Digits

RECURSIVE DecimalVal(_)
DecimalVal(cs) ==
  IF cs = <<>> THEN 0
  ELSE 10 * DecimalVal(SubSeq(cs, 1, Len(cs) - 1)) + DigitVal(cs[Len(cs)])

RECURSIVE DecimalStr(_)
DecimalStr(k) ==
  IF k < 10 THEN <<DigitChar(k)>> ELSE DecimalStr(k \div 10) \o <<DigitChar(k % 10)>>

\* str(val) of a cell that is not missing
PyStr(val) == IF val.t = "num" THEN DecimalStr(val.n) ELSE val.s

\* float(val): raises ValueError on text that is no number; the text "nan"
\* (any case, surrounding blanks allowed) converts, to the float NaN
FloatRaises(val) ==
  val.t = "str" /\ ~IsDigits(Strip(val.s)) /\ Lower(Strip(val.s)) # <<"n", "a", "n">>

PyFloat(val) ==
  IF val.t = "num" THEN Num(val.n)
  ELSE IF IsDigits(Strip(val.s)) THEN Num(DecimalVal(Strip(val.s)))
  ELSE NaN

\* pd.to_numeric(val, errors="coerce")
to_numeric(val) ==
  IF val.t = "num" THEN Num(val.n)
  ELSE IF val.t = "str" /\ IsDigits(val.s) THEN Num(DecimalVal(val.s))
  ELSE NaN

\* re.compile(pat) raises re.error for a group that is opened and never closed
ReCompileRaises(pat) ==
  \E j \in 1..Len(pat) :
    pat[j] = "(" /\ ~\E k \in (j + 1)..Len(pat) : pat[k] = ")"

\* re.search(pat, text) is not None, for patterns of literal characters and
\* ".", which stands for any one character
ReSearch(pat, text) ==
  \E i \in 0..(Len(text) - Len(pat)) :
    \A j \in 1..Len(pat) : pat[j] = "." \/ pat[j] = text[i + j]

\* Series.str.contains(pat, na=False): regex=True is the default
str_contains(text, pat) == ReSearch(pat, text)

\* -------------------------------------------------------------- matcher
\* _norm_category(val)
_norm_category(val) == IF notna(val) THEN Str(Lower(Strip(PyStr(val)))) ELSE None

\* lines 7-9: the copy with the two derived columns
Normalized(df) ==
  [k \in 1..Len(df) |->
     [name |-> df[k].name, category |-> df[k].category, price |-> df[k].price,
      sku |-> df[k].sku, url |-> df[k].url,
      category_norm |-> _norm_category(df[k].category),
      price_num |-> to_numeric(df[k].price)]]

Perms(n) == {f \in [1..n -> 1..n] : \A a, b \in 1..n : f[a] = f[b] => a = b}

\* the sort with ascending=False
IsSortOutcome_Descending(q, perm) ==
  /\ \A a, b \in 1..Len(q) :
       (a < b /\ q[perm[a]].price_num.t = "nan") => q[perm[b]].price_num.t = "nan"
  /\ \A a, b \in 1..Len(q) :
       (a < b /\ q[perm[b]].price_num.t = "num")
          => q[perm[a]].price_num.n >= q[perm[b]].price_num.n
  /\ \A a, b \in 1..Len(q) :
       (a < b /\ q[perm[a]].price_num.t = "nan") => perm[a] < perm[b]

\* line 10: sort_values(by=["price_num"], ascending=True, na_position="last")
\* with the default kind="quicksort".  The rows with a number come first in
\* non-decreasing order and the rows without one follow in frame order; the
\* default sort is not a stable one, so rows with equal prices may come
\* out in any order.
IsSortOutcome(q, perm) ==
  /\ \A a, b \in 1..Len(q) :
       (a < b /\ q[perm[a]].price_num.t = "nan") => q[perm[b]].price_num.t = "nan"
  /\ \A a, b \in 1..Len(q) :
       (a < b /\ q[perm[b]].price_num.t = "num")
          => q[perm[a]].price_num.n <= q[perm[b]].price_num.n
  /\ \A a, b \in 1..Len(q) :
       (a < b /\ q[perm[a]].price_num.t = "nan") => perm[a] < perm[b]

sort_values(q) == {perm \in Perms(Len(q)) : IsSortOutcome(q, perm)}

\* lines 15-21
Preferred(cdict) == _norm_category(cdict.preferred_category)

MaxBudget(cdict) ==
  IF notna(cdict.max_budget)
  THEN IF FloatRaises(cdict.max_budget) THEN None ELSE PyFloat(cdict.max_budget)
  ELSE None

\* `if preferred:` - None and the empty text are false
Truthy(val) == val.t = "str" /\ val.s # <<>>

\* lines 25-28: the boolean mask of one row
PrefMask(r, preferred) ==
  \/ r.category_norm = preferred
  \/ str_contains(Lower(r.name), preferred.s)

\* the preference filter without lines 29-30
PrefCand_NoFallback(q, sorted, preferred) ==
  IF Truthy(preferred)
  THEN SelectSeq(sorted, LAMBDA k :
         q[k].category_norm = preferred \/ str_contains(Lower(q[k].name), preferred.s))
  ELSE sorted

\* lines 23-30
PrefCand(q, sorted, preferred) ==
  IF Truthy(preferred)
  THEN LET filtered == SelectSeq(sorted, LAMBDA k : PrefMask(q[k], preferred))
       IN  IF filtered = <<>> THEN sorted ELSE filtered
  ELSE sorted

\* the budget mask with an exclusive boundary
BudgetMask_Strict(r, max_budget) ==
  \/ r.price_num.t = "nan"
  \/ (max_budget.t = "num" /\ r.price_num.n < max_budget.n)

\* line 32: the boolean mask of one row; a comparison with NaN is false
BudgetMask(r, max_budget) ==
  \/ r.price_num.t = "nan"
  \/ (max_budget.t = "num" /\ r.price_num.n <= max_budget.n)

\* lines 31-32
BudgetCand(q, cand, max_budget) ==
  IF max_budget.t # "none"
  THEN SelectSeq(cand, LAMBDA k : BudgetMask(q[k], max_budget))
  ELSE cand

\* head() taking one row too many
head_OffByOne(cand, n) == SubSeq(cand, 1, Min(n + 1, Len(cand)))

\* DataFrame.head(n)
head(cand, n) ==
  IF n >= 0 THEN SubSeq(cand, 1, Min(n, Len(cand)))
  ELSE SubSeq(cand, 1, Max(Len(cand) + n, 0))

\* lines 36-42
Rec(r) ==
  [name |-> r.name, category |-> r.category, price |-> r.price_num,
   sku |-> r.sku, url |-> r.url]

Recs(q, cand, n) == [j \in 1..Len(head(cand, n)) |-> Rec(q[head(cand, n)[j]])]

\* --------------------------------------------------------------- inputs
ProductMenu ==
  { [name |-> <<"A", "b">>, category |-> NaN, price |-> Num(1),
     sku |-> Str(<<"1">>), url |-> NaN],
    [name |-> <<"a", "a", "b">>, category |-> Str(<<" ", "Z", "Z">>), price |-> Num(1),
     sku |-> Str(<<"2">>), url |-> NaN],
    [name |-> <<"b">>, category |-> Str(<<"z", "z">>), price |-> Str(<<"2">>),
     sku |-> Str(<<"3">>), url |-> NaN],
    [name |-> <<"B", "z">>, category |-> Str(<<"a", "b">>),
     price |-> Str(<<"c", "a", "l", "l">>), sku |-> NaN, url |-> NaN] }

Cust(pr, b) == [preferred_category |-> pr, max_budget |-> b]

PrefAb == Str(<<"A", "b", " ">>)
PrefZz == Str(<<"z", "z">>)
PrefDot == Str(<<"a", ".", "b">>)
PrefParen == Str(<<"(">>)
PrefQ == Str(<<"q">>)
PrefBlank == Str(<<" ">>)

BudgetZero == Str(<<"0">>)
BudgetNA == Str(<<"N", "/", "A">>)
BudgetNanText == Str(<<"n", "a", "n">>)

CustomerMenu ==
  { Cust(NaN, NaN), Cust(NaN, Num(1)), Cust(PrefAb, Num(1)), Cust(PrefZz, BudgetZero),
    Cust(PrefDot, NaN), Cust(PrefParen, NaN), Cust(PrefQ, BudgetNA),
    Cust(PrefBlank, BudgetNanText) }

SeqsUpTo(S, n) == UNION { [1..k -> S] : k \in 0..n }

\* the catalogues: no product twice (spec 3: names are unique in a catalogue)
Catalogues(n) ==
  { df \in SeqsUpTo(ProductMenu, n) :
      \A a, b \in 1..Len(df) : df[a].name = df[b].name => a = b }

\* rows.insert(0, ...) in place of rows.append(...)
AppendRow_Prepend(rs, row) == <<row>> \o rs

\* line 43: rows.append(...)
AppendRow(rs, row) == Append(rs, row)

\* no upload in progress, nothing under review, nothing handed to the mailer
NoRequest == [kind |-> "none", table |-> <<>>, max_recs |-> None]
NoSession == [review_rows |-> <<>>, review_status |-> <<>>]
NoMail == [op |-> "none", calls |-> <<>>, delivered |-> <<>>]

\* ---------------------------------------------------------------- machine
Init ==
  /\ products_df \in Catalogues(MaxProducts)
  /\ customers_df \in SeqsUpTo(CustomerMenu, MaxCustomers)
  /\ max_recs \in 1..MaxRecs
  /\ p = <<>>
  /\ p_sorted = <<>>
  /\ rows = <<>>
  /\ locals = <<>>
  /\ pc = "start"
  /\ request = NoRequest
  /\ session = NoSession
  /\ mail = NoMail

\* lines 7-10
Sort ==
  /\ pc = "start"
  /\ p' = Normalized(products_df)
  /\ p_sorted' \in sort_values(Normalized(products_df))
  /\ pc' = "loop"
  /\ UNCHANGED <<products_df, customers_df, max_recs, rows, locals, appvars>>

\* lines 13-43: one iteration of the loop over the customers
MatchCustomer ==
  /\ pc = "loop"
  /\ Len(rows) < Len(customers_df)
  /\ LET cdict == customers_df[Len(rows) + 1]
         preferred == Preferred(cdict)
         max_budget == MaxBudget(cdict)
         cand1 == PrefCand(p, p_sorted, preferred)
         cand == BudgetCand(p, cand1, max_budget)
     IN  /\ ~(Truthy(preferred) /\ ReCompileRaises(preferred.s))
         /\ rows' = AppendRow(rows, [customer |-> cdict,
                                     recommendations |-> Recs(p, cand, max_recs)])
         /\ locals' = Append(locals, [preferred |-> preferred, max_budget |-> max_budget,
                                      cand_pref |-> cand1, cand |-> cand,
                                      taken |-> head(cand, max_recs)])
  /\ UNCHANGED <<products_df, customers_df, max_recs, p, p_sorted, pc, appvars>>

\* line 27: the pattern does not compile and re.error leaves the function
MatchCustomerRaises ==
  /\ pc = "loop"
  /\ Len(rows) < Len(customers_df)
  /\ LET preferred == Preferred(customers_df[Len(rows) + 1])
     IN  Truthy(preferred) /\ ReCompileRaises(preferred.s)
  /\ pc' = "raised"
  /\ UNCHANGED <<products_df, customers_df, max_recs, p, p_sorted, rows, locals, appvars>>

\* line 44
Return ==
  /\ pc = "loop"
  /\ Len(rows) = Len(customers_df)
  /\ pc' = "done"
  /\ UNCHANGED <<products_df, customers_df, max_recs, p, p_sorted, rows, locals, appvars>>

Next == Sort \/ MatchCustomer \/ MatchCustomerRaises \/ Return

Spec == Init /\ [][Next]_vars

TypeOK ==
  /\ pc \in {"start", "loop", "done", "raised"}
  /\ Len(rows) <= Len(customers_df)
  /\ Len(locals) = Len(rows)

\* ---------------------------------------------------------------- claims
\* the customers whose loop iteration has completed
Processed == 1..Len(rows)

\* text `tok` occurs in `text` as a literal substring
Contains(text, tok) ==
  \E i \in 0..(Len(text) - Len(tok)) : \A j \in 1..Len(tok) : tok[j] = text[i + j]

\* the match predicate as the specification words it: equal normalized
\* category, or the token a literal substring of the lower-cased name
LiteralMatch(r, tok) ==
  \/ (r.category.t = "str" /\ Lower(Strip(r.category.s)) = tok)
  \/ Contains(Lower(r.name), tok)

\* the normalized preference token of a customer row, <<>> when there is none
Token(cdict) ==
  IF cdict.preferred_category.t = "str"
  THEN Lower(Strip(cdict.preferred_category.s)) ELSE <<>>

\* C1: a customer whose non-empty preferred_category matches no product,
\* neither by normalized-category equality nor as a substring of the
\* lower-cased name, gets the recommendation list the same customer would
\* get with no preferred_category at all.
C1_PreferenceFallback ==
  \A i \in Processed :
    LET cdict == customers_df[i]
        tok == Token(cdict)
    IN  (tok # <<>> /\ \A k \in 1..Len(p) : ~LiteralMatch(p[k], tok))
          => rows[i].recommendations
               = Recs(p, BudgetCand(p, p_sorted, MaxBudget(cdict)), max_recs)

\* a max_budget cell that is a number or the text of one
ParsesToNumber(val) == val.t = "num" \/ (val.t = "str" /\ IsDigits(Strip(val.s)))

\* the number such a cell stands for
NumberOf(val) == IF val.t = "num" THEN val.n ELSE DecimalVal(Strip(val.s))

\* C2: for a customer whose max_budget parses to a number, a candidate
\* survives the budget filter iff its normalized price is absent or is
\* <= max_budget; so every recommendation has an absent price or a price
\* <= max_budget.
C2_BudgetFilter ==
  \A i \in Processed :
    ParsesToNumber(customers_df[i].max_budget) =>
      LET b == NumberOf(customers_df[i].max_budget)
          ok(k) == p[k].price_num.t = "nan" \/ p[k].price_num.n <= b
      IN  /\ locals[i].cand = SelectSeq(locals[i].cand_pref, ok)
          /\ \A j \in 1..Len(rows[i].recommendations) :
               \/ rows[i].recommendations[j].price.t = "nan"
               \/ rows[i].recommendations[j].price.n <= b

\* C2 witness: under a numeric budget a product priced exactly at the budget
\* is recommended while a dearer candidate was removed.
C2_Witness ==
  \E i \in Processed :
    /\ ParsesToNumber(customers_df[i].max_budget)
    /\ \E j \in 1..Len(rows[i].recommendations) :
         /\ rows[i].recommendations[j].price.t = "num"
         /\ rows[i].recommendations[j].price.n = NumberOf(customers_df[i].max_budget)
    /\ Len(locals[i].cand) < Len(locals[i].cand_pref)

\* C3: the recommendation list is exactly the first min(max_recs, size of the
\* final candidate set) records of the final candidate set, in its order; so
\* it is no longer than max_recs, and with max_recs = 1 the one
\* recommendation is the cheapest eligible product.
C3_CapRespected ==
  \A i \in Processed :
    LET recs == rows[i].recommendations
        cand == locals[i].cand
    IN  /\ Len(recs) <= max_recs
        /\ Len(recs) = Min(max_recs, Len(cand))
        /\ \A j \in 1..Len(recs) :
             recs[j] = [name |-> p[cand[j]].name, category |-> p[cand[j]].category,
                        price |-> p[cand[j]].price_num, sku |-> p[cand[j]].sku,
                        url |-> p[cand[j]].url]
        /\ (max_recs = 1 /\ cand # <<>>) =>
             \A j \in 1..Len(cand) :
               p[cand[j]].price_num.t = "num" =>
                 /\ recs[1].price.t = "num"
                 /\ recs[1].price.n <= p[cand[j]].price_num.n

\* C3 witness: the cap cuts a final candidate set of two products of
\* different prices down to one recommendation.
C3_Witness ==
  \E i \in Processed :
    /\ max_recs = 1
    /\ Len(locals[i].cand) = 2
    /\ p[locals[i].cand[1]].price_num # p[locals[i].cand[2]].price_num
    /\ Len(rows[i].recommendations) = 1

\* position of row label k in the frame `s`
Pos(s, k) == CHOOSE j \in 1..Len(s) : s[j] = k

\* C4: every recommendation list is non-decreasing in numeric price with the
\* unknown prices after all the numeric ones, and the preference and budget
\* filters keep the order of the pre-sorted catalogue.
C4_AscendingPrice ==
  \A i \in Processed :
    LET recs == rows[i].recommendations
        cand == locals[i].cand
    IN  /\ \A a, b \in 1..Len(recs) :
             (a < b /\ recs[b].price.t = "num") =>
                (recs[a].price.t = "num" /\ recs[a].price.n <= recs[b].price.n)
        /\ \A a, b \in 1..Len(cand) :
             a < b => Pos(p_sorted, cand[a]) < Pos(p_sorted, cand[b])

\* C4 witness: a customer with a preference and a budget receives two
\* recommendations, a priced one followed by one of unknown price, from a
\* catalogue that lists them the other way round.
C4_Witness ==
  \E i \in Processed :
    /\ Truthy(locals[i].preferred)
    /\ locals[i].max_budget.t = "num"
    /\ Len(rows[i].recommendations) = 2
    /\ rows[i].recommendations[1].price.t = "num"
    /\ rows[i].recommendations[2].price.t = "nan"
    /\ locals[i].cand[1] > locals[i].cand[2]

\* C5: the price sort is stable: of two products with equal numeric price, or
\* both without a price, the one earlier in the input catalogue is earlier in
\* the sorted catalogue and in every recommendation list holding both.
C5_StableTies ==
  pc # "start" =>
    \A a, b \in 1..Len(p) :
      (a < b /\ p[a].price_num = p[b].price_num) =>
        /\ Pos(p_sorted, a) < Pos(p_sorted, b)
        /\ \A i \in Processed :
             LET taken == locals[i].taken
             IN  ((\E j \in 1..Len(taken) : taken[j] = a)
                    /\ (\E j \in 1..Len(taken) : taken[j] = b))
                   => Pos(taken, a) < Pos(taken, b)

\* C6: the call returns one match result per customer row, the i-th result
\* carrying the i-th customer's record, for every size of the customer table.
C6_OrderPreservation ==
  /\ \A i \in Processed : rows[i].customer = customers_df[i]
  /\ pc = "done" =>
       /\ Len(rows) = Len(customers_df)
       /\ \A i \in 1..Len(customers_df) : rows[i].customer = customers_df[i]

\* C6 witness: the call has returned for a table of two different customers.
C6_Witness ==
  /\ pc = "done"
  /\ Len(customers_df) = 2
  /\ customers_df[1] # customers_df[2]
  /\ Len(rows) = 2

\* C7: with a non-empty preferred_category a product passes the preference
\* filter iff its trimmed, lower-cased category equals the trimmed,
\* lower-cased preference token or its lower-cased name contains the token as
\* a literal substring.
C7_PreferencePredicate ==
  \A i \in Processed :
    LET tok == Token(customers_df[i])
        passes == SelectSeq(p_sorted, LAMBDA k : LiteralMatch(p[k], tok))
    IN  tok # <<>> =>
          locals[i].cand_pref = IF passes = <<>> THEN p_sorted ELSE passes

\* C8 as stated: a recommendation list is empty only if the catalogue has no
\* rows.
C8_EmptyOnlyForEmptyCatalogue ==
  \A i \in Processed :
    rows[i].recommendations = <<>> => Len(products_df) = 0

\* C8 amended: a recommendation list is empty only if the catalogue has no
\* rows, or max_budget converts with float() and every candidate left after
\* the preference filter and fallback has a numeric price that is not <= the
\* converted budget.
C8_EmptyOnlyForEmptyOrBudget ==
  \A i \in Processed :
    rows[i].recommendations = <<>> =>
      \/ Len(products_df) = 0
      \/ /\ locals[i].max_budget.t # "none"
         /\ locals[i].cand_pref # <<>>
         /\ \A j \in 1..Len(locals[i].cand_pref) :
              LET r == p[locals[i].cand_pref[j]]
              IN  /\ r.price_num.t = "num"
                  /\ ~(locals[i].max_budget.t = "num"
                         /\ r.price_num.n <= locals[i].max_budget.n)

\* C8 witness: a customer of a non-empty catalogue is left with no
\* recommendation because every candidate is dearer than the budget.
C8_Witness ==
  \E i \in Processed :
    /\ rows[i].recommendations = <<>>
    /\ Len(products_df) > 0
    /\ ParsesToNumber(customers_df[i].max_budget)

\* C9: the call completes without raising whatever the optional fields hold,
\* free text in preferred_category included.
C9_NeverRaises == pc # "raised"

\* C10: a max_budget that is present but does not parse to a number gives the
\* recommendation list of the same customer with max_budget absent: the
\* budget filter is skipped.
C10_UnparseableBudget ==
  \A i \in Processed :
    (notna(customers_df[i].max_budget) /\ ~ParsesToNumber(customers_df[i].max_budget))
      => /\ locals[i].cand = locals[i].cand_pref
         /\ rows[i].recommendations = Recs(p, locals[i].cand_pref, max_recs)

\* ------------------------------------------------- upload handler (app.py)
LowerLetters ==
  {"a", "b", "c", "d", "e", "f", "g", "h", "i", "j", "k", "l", "m",
   "n", "o", "p", "q", "r", "s", "t", "u", "v", "w", "x", "y", "z"}

UpperLetters == {"A", "B", "E", "I", "K", "N", "P", "Z"}

\* [A-Za-z]
IsLetter(c) == c \in LowerLetters \/ c \in UpperLetters

\* \w
IsWordChar(c) == IsLetter(c) \/ c \in Digits \/ c = "_"

\* int(text): blanks around and one sign in front are allowed
IntBody(cs) == IF cs # <<>> /\ Head(cs) \in {"+", "-"} THEN Tail(cs) ELSE cs

PyIntRaises(val) == ~IsDigits(IntBody(Strip(val.s)))

PyInt(val) ==
  IF Strip(val.s) # <<>> /\ Head(Strip(val.s)) = "-"
  THEN 0 - DecimalVal(IntBody(Strip(val.s)))
  ELSE DecimalVal(IntBody(Strip(val.s)))

\* app.py lines 323-326: int(request.form.get("max_recs", "3")), 3 on ValueError
FormMaxRecs(field) ==
  LET text == IF field.t = "none" THEN Str(<<"3">>) ELSE field
  IN  IF PyIntRaises(text) THEN 3 ELSE PyInt(text)

\* app.py lines 359-360 on the rows of an uploaded table: the price column
\* through pd.to_numeric, the rows without a name dropped
CsvProducts(table) ==
  LET coerced == [k \in 1..Len(table) |->
                    [name |-> table[k].name, category |-> table[k].category,
                     price |-> to_numeric(table[k].price),
                     sku |-> table[k].sku, url |-> table[k].url]]
  IN  SelectSeq(coerced, LAMBDA r : notna(r.name))

\* product_parser.py _guess_price: the first run of digits, four at most
\* (the lines modelled carry no decimal part)
FirstDigit(line) ==
  IF \E j \in 1..Len(line) : line[j] \in Digits
  THEN CHOOSE j \in 1..Len(line) :
         line[j] \in Digits /\ \A k \in 1..(j - 1) : line[k] \notin Digits
  ELSE 0

RECURSIVE DigitRun(_, _, _)
DigitRun(line, j, left) ==
  IF left = 0 \/ j > Len(line) \/ line[j] \notin Digits THEN <<>>
  ELSE <<line[j]>> \o DigitRun(line, j + 1, left - 1)

_guess_price(line) ==
  IF FirstDigit(line) = 0 THEN None
  ELSE Num(DecimalVal(DigitRun(line, FirstDigit(line), 4)))

\* product_parser.py lines 29-32: the first keyword found as a whole word,
\* case ignored
Keywords ==
  << <<"P", "e", "n">>, <<"I", "n", "k">>, <<"P", "a", "p", "e", "r">>,
     <<"N", "o", "t", "e", "b", "o", "o", "k">>,
     <<"A", "c", "c", "e", "s", "s", "o", "r", "y">>, <<"S", "e", "t">>,
     <<"R", "e", "f", "i", "l", "l">> >>

WordAt(line, kw, i) ==
  /\ i + Len(kw) <= Len(line)
  /\ \A j \in 1..Len(kw) : LowerChar(line[i + j]) = LowerChar(kw[j])
  /\ (i = 0 \/ ~IsWordChar(line[i]))
  /\ (i + Len(kw) = Len(line) \/ ~IsWordChar(line[i + Len(kw) + 1]))

HasWord(line, kw) == \E i \in 0..Len(line) : WordAt(line, kw, i)

GuessCategory(line) ==
  IF \E n \in 1..Len(Keywords) : HasWord(line, Keywords[n])
  THEN Str(Keywords[CHOOSE n \in 1..Len(Keywords) :
                      /\ HasWord(line, Keywords[n])
                      /\ \A m \in 1..(n - 1) : ~HasWord(line, Keywords[m])])
  ELSE None

\* product_parser.py line 33: re.search(r"[A-Za-z]{3,}", line)
HasThreeLetters(line) ==
  \E i \in 1..(Len(line) - 2) :
    IsLetter(line[i]) /\ IsLetter(line[i + 1]) /\ IsLetter(line[i + 2])

\* product_parser.py lines 23-40: the rows read from the lines of the text
PdfRows(lines) ==
  LET stripped == [k \in 1..Len(lines) |-> Strip(lines[k])]
      kept == SelectSeq(stripped, LAMBDA line : line # <<>> /\ HasThreeLetters(line))
  IN  [k \in 1..Len(kept) |->
         [name |-> Str(kept[k]), category |-> GuessCategory(kept[k]),
          price |-> _guess_price(kept[k]), sku |-> None, url |-> None]]

\* drop_duplicates(subset=["name"]): the first row of each name is kept
drop_duplicates(df) ==
  LET first(k) == \A m \in 1..(k - 1) : df[m].name # df[k].name
      keep == SelectSeq([k \in 1..Len(df) |-> k], first)
  IN  [k \in 1..Len(keep) |-> df[keep[k]]]

\* product_parser.py lines 41-42: a frame without rows has no "name" column
\* and drop_duplicates raises KeyError
PdfRaises(lines) == PdfRows(lines) = <<>>

parse_products_from_pdf(lines) == head(drop_duplicates(PdfRows(lines)), 1000)

\* app.py lines 347-360
UploadedProducts(req) ==
  IF req.kind = "csv" THEN CsvProducts(req.table)
  ELSE CsvProducts(parse_products_from_pdf(req.table))

\* the frame columns hold text in the cells of name (a row of the matcher
\* has the text itself)
AsMatcherRows(df) ==
  [k \in 1..Len(df) |->
     [name |-> df[k].name.s, category |-> df[k].category, price |-> df[k].price,
      sku |-> df[k].sku, url |-> df[k].url]]

\* the pound sign of email_templates.py line 7, in ASCII
PoundSign == "GBP"

\* email_templates.py _to_price_str: float(val) formatted with two decimals;
\* float() of the float NaN does not raise and formats as "nan"; None and
\* text that is no number raise and give ""
_to_price_str(val) ==
  IF val.t = "num" THEN <<PoundSign>> \o DecimalStr(val.n) \o <<".", "0", "0">>
  ELSE IF val.t = "nan" THEN <<PoundSign, "n", "a", "n">>
  ELSE IF val.t = "str" /\ ~FloatRaises(val)
       THEN IF PyFloat(val).t = "num"
            THEN <<PoundSign>> \o DecimalStr(PyFloat(val).n) \o <<".", "0", "0">>
            ELSE <<PoundSign, "n", "a", "n">>
  ELSE <<>>

\* email_templates.py lines 13-14: `(x or default).strip()` - the float NaN is
\* true and has no strip()
StripRaises(val) == val.t \in {"nan", "num"}

OrStrip(val, default) == IF val.t = "str" /\ val.s # <<>> THEN Strip(val.s) ELSE default

\* the dash of email_templates.py line 17, in ASCII
EmDash == "--"

\* email_templates.py _format_product_line
_format_product_line(rec) ==
  LET price_str == _to_price_str(rec.price)
      name == IF rec.name = <<>> THEN <<"P", "r", "o", "d", "u", "c", "t">>
              ELSE Strip(rec.name)
      url == OrStrip(rec.url, <<>>)
  IN  <<"-", " ">> \o name
        \o (IF price_str # <<>> THEN <<" ", EmDash, " ">> \o price_str ELSE <<>>)
        \o (IF url # <<>> THEN <<" ", "(">> \o url \o <<")">> ELSE <<>>)

FormatRaises(rec) == StripRaises(rec.url)

NoItemsLine == <<"- (No suitable items found yet)">>

\* email_templates.py line 36: the bullet lines of build_email_for_customer
build_email_for_customer(recommendations) ==
  IF recommendations # <<>>
  THEN [j \in 1..Len(recommendations) |-> _format_product_line(recommendations[j])]
  ELSE <<NoItemsLine>>

\* ------------------------------------------------------------ the uploads
UpRow(nm, cat, pr, u) == [name |-> nm, category |-> cat, price |-> pr, sku |-> None, url |-> u]

TextPen == <<"P", "e", "n">>
TextInk == <<"I", "n", "k">>
TextUrl == <<"u">>

CsvTables ==
  { <<>>,
    << UpRow(Str(TextPen), None, Str(<<"2">>), None) >>,
    << UpRow(Str(TextPen), None, Str(<<"2">>), None),
       UpRow(Str(TextPen), None, Num(1), None) >>,
    << UpRow(NaN, None, Num(1), None), UpRow(Str(TextInk), None, Num(1), None) >>,
    << UpRow(Str(TextInk), Str(TextPen), Str(<<"c", "a", "l", "l">>), None),
       UpRow(Str(TextPen), NaN, Num(2), None) >>,
    << UpRow(Str(TextPen), NaN, Num(1), Str(TextUrl)),
       UpRow(Str(TextInk), NaN, Num(2), NaN) >> }

PdfTexts ==
  { << <<"P", "e", "n", " ", "2">>, <<" ", "P", "e", "n", " ", "2", " ">>, TextInk >>,
    << <<"a", "b">>, <<>> >>,
    << <<"1", "2", " ", "i", "n", "k", "s">>, <<"a", " ", "s", "e", "t", " ", "3">> >> }

Requests ==
  { [kind |-> kd[1], table |-> kd[2], max_recs |-> mr, customers |-> cs] :
      kd \in ({"csv"} \X CsvTables) \cup ({"pdf"} \X PdfTexts),
      mr \in { None, Str(<<"x">>), Str(<<"0">>), Str(<<"-", "1">>), Str(<<" ", "2">>) },
      cs \in { <<>>, << Cust(NaN, NaN) >>,
               << Cust(Str(<<"p", "e", "n">>), Num(1)), Cust(NaN, BudgetNA) >>,
               << Cust(PrefParen, NaN) >> } }

InitUpload ==
  /\ request \in Requests
  /\ products_df = <<>>
  /\ customers_df = <<>>
  /\ max_recs = 0
  /\ p = <<>>
  /\ p_sorted = <<>>
  /\ rows = <<>>
  /\ locals = <<>>
  /\ pc = "post"
  /\ session = NoSession
  /\ mail = NoMail

\* app.py lines 321-376: the POST of an upload, up to the call of the matcher
index_post ==
  /\ pc = "post"
  /\ ~(request.kind = "pdf" /\ PdfRaises(request.table))
  /\ max_recs' = FormMaxRecs(request.max_recs)
  /\ customers_df' = request.customers
  /\ products_df' = AsMatcherRows(UploadedProducts(request))
  /\ pc' = "start"
  /\ UNCHANGED <<p, p_sorted, rows, locals, appvars>>

\* app.py lines 362-364: the products could not be read; flash and redirect
index_rejects ==
  /\ pc = "post"
  /\ request.kind = "pdf" /\ PdfRaises(request.table)
  /\ pc' = "redirect"
  /\ UNCHANGED <<products_df, customers_df, max_recs, p, p_sorted, rows, locals, appvars>>

\* one draft: the worker's text, or the template's bullet lines
Draft(row, from_worker) ==
  IF from_worker THEN [source |-> "worker", bullets |-> <<>>]
  ELSE [source |-> "template", bullets |-> build_email_for_customer(row.recommendations)]

DraftRaises(row, from_worker) ==
  ~from_worker /\ \E j \in 1..Len(row.recommendations) : FormatRaises(row.recommendations[j])

\* app.py lines 378-447: a draft per match result, from the worker or, when
\* the worker fails, from the template; all drafts start as "pending"
index_compose ==
  /\ pc = "done"
  /\ \E from_worker \in [1..Len(rows) -> BOOLEAN] :
       /\ \A i \in 1..Len(rows) : ~DraftRaises(rows[i], from_worker[i])
       /\ session' = [review_rows |-> [i \in 1..Len(rows) |-> Draft(rows[i], from_worker[i])],
                      review_status |-> [i \in 1..Len(rows) |-> "pending"]]
  /\ pc' = "review"
  /\ UNCHANGED <<products_df, customers_df, max_recs, p, p_sorted, rows, locals, request, mail>>

\* email_templates.py line 14: AttributeError leaves the handler
index_compose_raises ==
  /\ pc = "done"
  /\ \E i \in 1..Len(rows) : DraftRaises(rows[i], FALSE)
  /\ pc' = "raised"
  /\ UNCHANGED <<products_df, customers_df, max_recs, p, p_sorted, rows, locals, appvars>>

NextUpload ==
  \/ index_post
  \/ index_rejects
  \/ Sort
  \/ MatchCustomer
  \/ MatchCustomerRaises
  \/ Return
  \/ index_compose
  \/ index_compose_raises

SpecUpload == InitUpload /\ [][NextUpload]_vars

\* the upload handler has called the matcher
MatcherCalled == pc \notin {"post", "redirect"}

SameName(a, b) == a.name = b.name

\* C11: the catalogue the upload handler passes to the matcher has no two
\* rows with the same name, for a CSV/Excel upload and for a PDF alike, and
\* so no recommendation list has two recommendations with the same name.
C11_CatalogueUniqueByName ==
  MatcherCalled =>
    /\ \A a, b \in 1..Len(products_df) : SameName(products_df[a], products_df[b]) => a = b
    /\ \A i \in 1..Len(rows) :
         \A a, b \in 1..Len(rows[i].recommendations) :
           SameName(rows[i].recommendations[a], rows[i].recommendations[b]) => a = b

\* C12: whatever the max_recs form field holds (missing, non-numeric, zero,
\* negative, positive), the cap passed to the matcher is a positive integer,
\* and it is 3 whenever the form value does not parse.
C12_ValidCap ==
  MatcherCalled =>
    /\ max_recs >= 1
    /\ (request.max_recs.t = "str" /\ ~IsDigits(IntBody(Strip(request.max_recs.s))))
         => max_recs = 3

\* C13: over the matcher's output the template renders a product line without
\* price text when the price is unknown and with a price only when it is
\* numeric, and renders the explanatory line in place of product lines
\* exactly when the recommendation list is empty.
C13_EmailComposition ==
  pc = "review" =>
    \A i \in 1..Len(rows) :
      session.review_rows[i].source = "template" =>
        LET recs == rows[i].recommendations
            bullets == session.review_rows[i].bullets
        IN  /\ (recs = <<>>) <=> (bullets = <<NoItemsLine>>)
            /\ recs # <<>> =>
                 /\ Len(bullets) = Len(recs)
                 /\ \A j \in 1..Len(recs) :
                      (\E k \in 1..Len(bullets[j]) : bullets[j][k] = PoundSign)
                        <=> recs[j].price.t = "num"

\* C14 (determinism and idempotence of two invocations on equal inputs) has
\* no formula: it relates two runs of the matcher, and each run evaluates the
\* same operators above.

\* ------------------------------------------------ review and send (app.py)
\* The drafts are numbered 1..n here (the form's index 0..n-1 plus one);
\* index n+1 stands for every index out of range.  mail.calls lists the
\* recipients the handler of the last request handed to gmail_send, in call
\* order (0: the connected account itself); mail.delivered counts, per draft,
\* the calls of gmail_send to the customer that succeeded: 0, 1, or 2 for
\* "more than once".
Drafts == 1..Len(session.review_rows)

\* one more delivery of a draft
Delivered(k) == IF k < 2 THEN k + 1 ELSE k

InRange(i) == 1 <= i /\ i <= Len(session.review_status)

SetStatus(i, s) == [session EXCEPT !.review_status[i] = s]

InitReview ==
  /\ \E n \in 0..MaxDrafts :
       /\ session = [review_rows |-> [i \in 1..n |-> [email |-> i, body |-> "generated"]],
                     review_status |-> [i \in 1..n |-> "pending"]]
       /\ mail = [op |-> "none", calls |-> <<>>, delivered |-> [i \in 1..n |-> 0]]
  /\ request = NoRequest
  /\ products_df = <<>>
  /\ customers_df = <<>>
  /\ max_recs = 0
  /\ p = <<>>
  /\ p_sorted = <<>>
  /\ rows = <<>>
  /\ locals = <<>>
  /\ pc = "review"

matchervars == <<products_df, customers_df, max_recs, p, p_sorted, rows, locals, pc, request>>

\* app.py lines 464-471
review_approve ==
  /\ pc = "review"
  /\ \E i \in 1..(Len(session.review_status) + 1) :
       session' = IF InRange(i) THEN SetStatus(i, "approved") ELSE session
  /\ mail' = [mail EXCEPT !.op = "approve", !.calls = <<>>]
  /\ UNCHANGED matchervars

\* app.py lines 473-480
review_unapprove ==
  /\ pc = "review"
  /\ \E i \in 1..(Len(session.review_status) + 1) :
       session' = IF InRange(i) THEN SetStatus(i, "pending") ELSE session
  /\ mail' = [mail EXCEPT !.op = "unapprove", !.calls = <<>>]
  /\ UNCHANGED matchervars

\* app.py lines 482-489
review_skip_one ==
  /\ pc = "review"
  /\ \E i \in 1..(Len(session.review_status) + 1) :
       session' = IF InRange(i) THEN SetStatus(i, "skipped") ELSE session
  /\ mail' = [mail EXCEPT !.op = "skip_one", !.calls = <<>>]
  /\ UNCHANGED matchervars

\* app.py lines 491-509: a test copy to the connected account; no status
\* changes, whether gmail_send succeeds or raises
review_test_one ==
  /\ pc = "review"
  /\ \E i \in 1..(Len(session.review_rows) + 1), connected \in BOOLEAN :
       mail' = [mail EXCEPT !.op = "test_one",
                            !.calls = IF i <= Len(session.review_rows) /\ connected
                                      THEN <<0>> ELSE <<>>]
  /\ UNCHANGED <<session, matchervars>>

\* app.py lines 511-534: the subject and body of the form replace the
\* draft's, the draft goes to its customer whatever its status is, and is
\* "sent" unless gmail_send raises
review_send_one ==
  /\ pc = "review"
  /\ \E i \in 1..(Len(session.review_rows) + 1), ok \in BOOLEAN :
       IF i <= Len(session.review_rows)
       THEN /\ session' = [session EXCEPT
                             !.review_rows[i].body = "form",
                             !.review_status[i] = IF ok THEN "sent" ELSE @]
            /\ mail' = [op |-> "send_one", calls |-> <<i>>,
                        delivered |-> [mail.delivered EXCEPT ![i] = IF ok THEN Delivered(@) ELSE @]]
       ELSE /\ session' = session
            /\ mail' = [mail EXCEPT !.op = "send_one", !.calls = <<>>]
  /\ UNCHANGED matchervars

\* line 541 negated: the drafts review_send_all does not skip
IsApproved_OrPending(s) == s \in {"approved", "pending"}

IsApproved(s) == s = "approved"

\* app.py lines 536-552: every approved draft, in row order, goes to its
\* customer and is "sent", or "error: ..." when gmail_send raises
review_send_all ==
  /\ pc = "review"
  /\ LET todo == {i \in Drafts : IsApproved(session.review_status[i])}
     IN  \E ok \in SUBSET todo :
           /\ session' = [session EXCEPT !.review_status =
                            [i \in Drafts |->
                               IF i \in ok THEN "sent"
                               ELSE IF i \in todo THEN "error"
                               ELSE session.review_status[i]]]
           /\ mail' = [op |-> "send_all",
                       calls |-> SelectSeq([i \in Drafts |-> i], LAMBDA i : i \in todo),
                       delivered |-> [i \in Drafts |->
                                        IF i \in ok THEN Delivered(mail.delivered[i])
                                        ELSE mail.delivered[i]]]
  /\ UNCHANGED matchervars

NextReview ==
  \/ review_approve
  \/ review_unapprove
  \/ review_skip_one
  \/ review_test_one
  \/ review_send_one
  \/ review_send_all

SpecReview == InitReview /\ [][NextReview]_vars

\* C15: one call of review_send_all hands to the mail sender, once each and in
\* row order, exactly the drafts that are "approved" at that moment; each of
\* them ends as "sent" or as an error, the status of every other draft is
\* unchanged, and no draft is left "approved".
C15_BulkSendExactlyApproved ==
  [][mail'.op = "send_all" =>
       /\ Len(mail'.calls) = Cardinality({i \in Drafts : session.review_status[i] = "approved"})
       /\ \A a \in 1..Len(mail'.calls) :
            /\ mail'.calls[a] \in Drafts
            /\ session.review_status[mail'.calls[a]] = "approved"
            /\ \A b \in 1..Len(mail'.calls) : a < b => mail'.calls[a] < mail'.calls[b]
       /\ \A i \in Drafts :
            /\ session.review_status[i] = "approved"
                 => session'.review_status[i] \in {"sent", "error"}
            /\ session.review_status[i] # "approved"
                 => session'.review_status[i] = session.review_status[i]
            /\ session'.review_status[i] # "approved"
       /\ session'.review_rows = session.review_rows]_vars

\* C15 witness: a bulk send over two approved drafts, of which the first was
\* delivered and the second failed.
C15_Witness ==
  /\ mail.op = "send_all"
  /\ mail.calls = <<1, 2>>
  /\ session.review_status = <<"sent", "error">>

\* C16: over any sequence of review operations each draft is delivered to its
\* customer at most once: a draft that is "sent" is not handed to the mail
\* sender again and stays "sent".
C16_AtMostOnceDispatch ==
  \A i \in 1..Len(mail.delivered) : mail.delivered[i] <= 1
====
